---------------------------- MODULE Spec2Model ----------------------------
(***************************************************************************)
(* A model of src/player.py: the hexagonal board with its incrementally    *)
(* maintained hive set, the connectivity check, the per-kind move          *)
(* generators, the static evaluator and the iterative-deepening search.    *)
(*                                                                         *)
(* A player (the object `self` of class Player) is a record                *)
(*   [board, hive, upper, myMove, myPieces, rev]                           *)
(* board    : Cells -> sequence of piece letters, last element = top       *)
(* hive     : the set self.hive                                            *)
(* upper    : self.myColorIsUpper                                          *)
(* myMove   : the turn index self.myMove                                   *)
(* myPieces : the reserve self.myPieces, keyed by letters of the own case  *)
(* rev      : the order in which a Python set of cells is iterated; the    *)
(*            code iterates self.hive and cells_around_hive, whose order   *)
(*            the language leaves open, so it is an input of the model     *)
(*            (FALSE: ascending (p, q), TRUE: descending)                  *)
(* Iterators of the code are sequences here, in the order of the code.     *)
(***************************************************************************)
EXTENDS Integers, Sequences, FiniteSets, TLC

\* the board's size (Board.size, a constructor argument)
BoardSize == 4

None == <<>>

DIRECTIONS == << <<1, 0>>, <<0, 1>>, <<-1, 1>>, <<-1, 0>>, <<0, -1>>, <<1, -1>> >>

\* ---------------------------------------------------------------- letters
UpperLetters == {"Q", "S", "B", "A", "G"}
LowerLetters == {"q", "s", "b", "a", "g"}

\* the members of enum Piece, in their order of definition
PieceOrder == <<"Q", "S", "B", "A", "G">>

str_upper(s) ==
    CASE s = "q" -> "Q" [] s = "s" -> "S" [] s = "b" -> "B"
      [] s = "a" -> "A" [] s = "g" -> "G" [] OTHER -> s

str_lower(s) ==
    CASE s = "Q" -> "q" [] s = "S" -> "s" [] s = "B" -> "b"
      [] s = "A" -> "a" [] s = "G" -> "g" [] OTHER -> s

isupper(s) == s \in UpperLetters

islower(s) == s \in LowerLetters

\* Piece.from_str
from_str(string) == str_upper(string)

\* Move.piece_str
piece_str(move, up) == IF up THEN str_upper(move.piece) ELSE str_lower(move.piece)

\* dataclass Move
Move(piece, start, end) == [piece |-> piece, start |-> start, end |-> end]

\* ---------------------------------------------------------------- helpers
RECURSIVE Concat(_)
Concat(ss) == IF ss = <<>> THEN <<>> ELSE Head(ss) \o Concat(Tail(ss))

Range(s) == {s[i] : i \in 1..Len(s)}

CellLess(a, b) == a[1] < b[1] \/ (a[1] = b[1] /\ a[2] < b[2])

\* the cells of set S in the iteration order selected by rev
RECURSIVE SetOrder(_, _)
SetOrder(S, rev) ==
    IF S = {} THEN <<>>
    ELSE LET c == CHOOSE x \in S : \A y \in S \ {x} :
                      IF rev THEN CellLess(y, x) ELSE CellLess(x, y)
         IN  <<c>> \o SetOrder(S \ {c}, rev)

\* ---------------------------------------------------------------- geometry
in_board(cell) ==
    LET p == cell[1] q == cell[2] IN
    /\ 0 <= q /\ q < BoardSize
    /\ -(q \div 2) <= p /\ p < BoardSize - (q \div 2)

Cells == {c \in (-BoardSize..BoardSize) \X (0..BoardSize - 1) : in_board(c)}

rotate_left(direction) == <<direction[1] + direction[2], -direction[1]>>

rotate_right(direction) == <<-direction[2], direction[1] + direction[2]>>

neighboring_cells_unchecked(cell) ==
    [i \in 1..6 |-> <<cell[1] + DIRECTIONS[i][1], cell[2] + DIRECTIONS[i][2]>>]

neighboring_cells(cell) ==
    SelectSeq(neighboring_cells_unchecked(cell), in_board)

\* ---------------------------------------------------------------- board queries
is_empty(player, cell) == player.board[cell] = <<>>

top_piece_in(player, cell) == player.board[cell][Len(player.board[cell])]

empty_neighboring_cells(player, cell) ==
    SelectSeq(neighboring_cells(cell), LAMBDA n : is_empty(player, n))

neighbors(player, cell) ==
    SelectSeq(neighboring_cells(cell), LAMBDA n : ~is_empty(player, n))

is_my_cell(player, cell) ==
    LET piece == top_piece_in(player, cell) IN
    (isupper(piece) = player.upper) \/ (islower(piece) # player.upper)

neighbors_only_my_pieces(player, cell) ==
    \A i \in 1..Len(neighbors(player, cell)) :
        is_my_cell(player, neighbors(player, cell)[i])

my_piece_remaining(player, piece) ==
    player.myPieces[IF player.upper THEN str_upper(piece) ELSE str_lower(piece)]

\* ---------------------------------------------------------------- mutation
\* a faulty variant of remove_piece_from_board: the cell leaves the hive
\* even when a piece remains on it
remove_piece_always_discards(player, cell) ==
    LET s == player.board[cell] IN
    [player |-> [player EXCEPT !.board = [player.board EXCEPT
                                             ![cell] = SubSeq(s, 1, Len(s) - 1)],
                               !.hive = player.hive \ {cell}],
     piece  |-> s[Len(s)]]

\* Removes the top piece of the cell; the result is the player after the
\* call and the piece returned.
remove_piece_from_board(player, cell) ==
    LET s     == player.board[cell]
        b2    == [player.board EXCEPT ![cell] = SubSeq(s, 1, Len(s) - 1)]
        h2    == IF b2[cell] = <<>> THEN player.hive \ {cell} ELSE player.hive
    IN  [player |-> [player EXCEPT !.board = b2, !.hive = h2],
         piece  |-> s[Len(s)]]

add_piece_to_board(player, cell, piece) ==
    [player EXCEPT !.board = [player.board EXCEPT ![cell] = Append(@, piece)],
                   !.hive  = player.hive \cup {cell}]

\* the assertion of play_move: the piece taken from start is the move's piece
play_move_assert(player, move) ==
    move.start # None =>
        remove_piece_from_board(player, move.start).piece
            = piece_str(move, player.upper)

play_move(player, move) ==
    LET piece == piece_str(move, player.upper)
        p1    == IF move.start # None
                 THEN remove_piece_from_board(player, move.start).player
                 ELSE player
    IN  add_piece_to_board(p1, move.end, piece)

\* the assertion of reverse_move: the piece taken from end is the move's piece
reverse_move_assert(player, move) ==
    LET piece == piece_str(move, player.upper)
        p1    == IF move.start # None
                 THEN add_piece_to_board(player, move.start, piece)
                 ELSE player
    IN  remove_piece_from_board(p1, move.end).piece = piece

\* a faulty variant of reverse_move: the piece is taken from `end` and never
\* put back at `start`
reverse_move_no_restore(player, move) ==
    remove_piece_from_board(player, move.end).player

reverse_move(player, move) ==
    LET piece == piece_str(move, player.upper)
        p1    == IF move.start # None
                 THEN add_piece_to_board(player, move.start, piece)
                 ELSE player
    IN  remove_piece_from_board(p1, move.end).player

\* class LiftPiece
LiftPiece_enter(player, cell) == remove_piece_from_board(player, cell)

LiftPiece_exit(player, cell, piece) == add_piece_to_board(player, cell, piece)

\* ---------------------------------------------------------------- flood fill
\* floodfill with next_fn given as a function on cells; the result is the
\* sequence of the cells yielded (map_fn is applied by the caller) and the
\* visited set at exhaustion.
RECURSIVE floodfill(_, _, _)
floodfill(visited, queue, next_fn) ==
    IF queue = <<>> THEN [visited |-> visited, yielded |-> <<>>]
    ELSE LET current == Head(queue) IN
         IF current \in visited
         THEN floodfill(visited, Tail(queue), next_fn)
         ELSE LET r == floodfill(visited \cup {current},
                                 Tail(queue) \o next_fn[current], next_fn)
              IN  [visited |-> r.visited, yielded |-> <<current>> \o r.yielded]

\* ---------------------------------------------------------------- connectivity
\* the loop of moving_breaks_hive over the neighbours after the first:
\* acc = [in_group, groups]
RECURSIVE count_groups(_, _, _)
count_groups(player, ns, acc) ==
    IF ns = <<>> THEN acc
    ELSE count_groups(player, Tail(ns),
           IF Head(ns) \in player.hive
           THEN [in_group |-> TRUE, groups |-> acc.groups]
           ELSE IF acc.in_group
                THEN [in_group |-> FALSE, groups |-> acc.groups + 1]
                ELSE acc)

\* a faulty variant of moving_breaks_hive: no flood fill, never `breaks`
moving_breaks_hive_no_fill(player, cell) ==
    [player |-> player, result |-> FALSE, raised |-> FALSE]

\* The result is [player, result, raised]: the player after the call, the
\* value returned, and whether next() on an empty iterator raised instead.
moving_breaks_hive(player, cell) ==
    IF Len(player.board[cell]) > 1
    THEN [player |-> player, result |-> FALSE, raised |-> FALSE]
    ELSE
    LET nbs    == neighboring_cells_unchecked(cell)
        first  == nbs[1]
        acc    == count_groups(player, Tail(nbs),
                               [in_group |-> first \in player.hive, groups |-> 0])
        groups == IF acc.in_group /\ first \notin player.hive
                  THEN acc.groups + 1 ELSE acc.groups
    IN
    IF groups = 1
    THEN [player |-> player, result |-> FALSE, raised |-> FALSE]
    ELSE IF neighbors(player, cell) = <<>>
    THEN [player |-> player, result |-> FALSE, raised |-> TRUE]
    ELSE
    LET start   == neighbors(player, cell)[1]
        lifted  == LiftPiece_enter(player, cell)
        next_fn == [c \in Cells |-> neighbors(lifted.player, c)]
        visited == floodfill({}, <<start>>, next_fn).visited
    IN  [player |-> LiftPiece_exit(lifted.player, cell, lifted.piece),
         result |-> visited # lifted.player.hive,
         raised |-> FALSE]

\* ---------------------------------------------------------------- steps
can_move_to(player, origin, target, can_crawl_over) ==
    IF ~is_empty(player, target) /\ ~can_crawl_over THEN FALSE
    ELSE
    LET direction == <<target[1] - origin[1], target[2] - origin[2]>>
        l         == rotate_left(direction)
        r         == rotate_right(direction)
        left      == <<origin[1] + l[1], origin[2] + l[2]>>
        right     == <<origin[1] + r[1], origin[2] + r[2]>>
    IN  IF can_crawl_over
        THEN \/ (in_board(left) /\ ~is_empty(player, left))
             \/ (in_board(right) /\ ~is_empty(player, right))
        ELSE /\ (in_board(left) /\ in_board(right))
             /\ is_empty(player, left) # is_empty(player, right)

valid_steps(player, cell, can_crawl_over) ==
    SelectSeq(neighboring_cells(cell),
              LAMBDA n : can_move_to(player, cell, n, can_crawl_over))

\* ---------------------------------------------------------------- generators
\* Each generator runs with the piece lifted (LiftPiece) and yields its
\* moves in order; the piece is put back when the generator is exhausted.
\* Its assertion on the kind of the lifted piece holds by the dispatch of
\* valid_moves, which selects the generator by that same top piece.
queens_moves(player, queen) ==
    LET lifted == LiftPiece_enter(player, queen).player
        steps  == valid_steps(lifted, queen, FALSE)
    IN  [i \in 1..Len(steps) |-> Move("Q", queen, steps[i])]

ants_moves(player, ant) ==
    LET lifted     == LiftPiece_enter(player, ant).player
        next_cells == [cell \in Cells |->
                         SelectSeq(empty_neighboring_cells(lifted, cell),
                                   LAMBDA n : can_move_to(lifted, cell, n, FALSE))]
        cells      == floodfill({ant}, next_cells[ant], next_cells).yielded
    IN  [i \in 1..Len(cells) |-> Move("A", ant, cells[i])]

beetles_moves(player, beetle) ==
    LET lifted == LiftPiece_enter(player, beetle).player
        steps  == valid_steps(lifted, beetle, TRUE)
    IN  [i \in 1..Len(steps) |-> Move("B", beetle, steps[i])]

\* a faulty variant of the while loop of grasshoppers_moves: the first empty
\* cell is yielded whether or not a piece was skipped
RECURSIVE grasshopper_jump_no_skip(_, _, _, _)
grasshopper_jump_no_skip(player, gs, d, skipped) ==
    LET nxt == <<gs[1] + d[1], gs[2] + d[2]>> IN
    IF ~in_board(nxt) THEN <<>>
    ELSE IF is_empty(player, nxt) THEN <<nxt>>
    ELSE grasshopper_jump_no_skip(player, nxt, d, TRUE)

\* the while loop of grasshoppers_moves for one direction, from cell gs
RECURSIVE grasshopper_jump(_, _, _, _)
grasshopper_jump(player, gs, d, skipped) ==
    LET nxt == <<gs[1] + d[1], gs[2] + d[2]>> IN
    IF ~in_board(nxt) THEN <<>>
    ELSE IF is_empty(player, nxt) THEN (IF skipped THEN <<nxt>> ELSE <<>>)
    ELSE grasshopper_jump(player, nxt, d, TRUE)

grasshoppers_moves(player, grasshopper) ==
    LET lifted == LiftPiece_enter(player, grasshopper).player
        cells  == Concat([i \in 1..6 |->
                     grasshopper_jump(lifted, grasshopper, DIRECTIONS[i], FALSE)])
    IN  [i \in 1..Len(cells) |-> Move("G", grasshopper, cells[i])]

\* the number of layers of spiders_moves (range(3))
SpiderSteps == 3

\* the inner loop of spiders_moves over the items of one layer
RECURSIVE spider_layer(_, _, _, _)
spider_layer(player, stack, visited, next_stack) ==
    IF stack = <<>> THEN [visited |-> visited, next_stack |-> next_stack]
    ELSE LET item == Head(stack)
             v2   == visited \cup {item}
         IN  spider_layer(player, Tail(stack), v2,
                 next_stack \o SelectSeq(valid_steps(player, item, FALSE),
                                         LAMBDA n : n \notin v2))

\* the outer loop of spiders_moves, k layers left
RECURSIVE spider_rounds(_, _, _, _)
spider_rounds(player, stack, visited, k) ==
    IF k = 0 THEN stack
    ELSE LET r == spider_layer(player, stack, visited, <<>>) IN
         IF r.next_stack = <<>> THEN <<>>
         ELSE spider_rounds(player, r.next_stack, r.visited, k - 1)

spiders_moves(player, spider) ==
    LET lifted == LiftPiece_enter(player, spider).player
        stack  == spider_rounds(lifted, <<spider>>, {}, SpiderSteps)
    IN  [i \in 1..Len(stack) |-> Move("S", spider, stack[i])]

\* the dispatch table `mapping` of valid_moves
mapping(player, piece, cell) ==
    CASE piece = "A" -> ants_moves(player, cell)
      [] piece = "Q" -> queens_moves(player, cell)
      [] piece = "B" -> beetles_moves(player, cell)
      [] piece = "G" -> grasshoppers_moves(player, cell)
      [] piece = "S" -> spiders_moves(player, cell)

\* ---------------------------------------------------------------- move set
\* a faulty variant of cells_around_hive: the cells next to a rival piece
\* are left out, as valid_placements leaves them out
cells_around_hive_own_only(player) ==
    {c \in UNION {Range(empty_neighboring_cells(player, cell)) : cell \in player.hive} :
        neighbors_only_my_pieces(player, c)}

cells_around_hive(player) ==
    UNION {Range(empty_neighboring_cells(player, cell)) : cell \in player.hive}

my_pieces_on_board(player) ==
    LET own == SelectSeq(SetOrder(player.hive, player.rev),
                         LAMBDA cell : is_my_cell(player, cell))
    IN  [i \in 1..Len(own) |-> <<from_str(top_piece_in(player, own[i])), own[i]>>]

my_placable_pieces(player) ==
    LET keys == [i \in 1..Len(PieceOrder) |->
                    IF player.upper THEN PieceOrder[i] ELSE str_lower(PieceOrder[i])]
        have == SelectSeq(keys, LAMBDA k : player.myPieces[k] > 0)
    IN  [i \in 1..Len(have) |-> from_str(have[i])]

\* a faulty variant of my_movable_pieces: no piece is filtered out
my_movable_pieces_unfiltered(player) == my_pieces_on_board(player)

my_movable_pieces(player) ==
    SelectSeq(my_pieces_on_board(player),
              LAMBDA pc : ~moving_breaks_hive(player, pc[2]).result)

valid_placements(player) ==
    SelectSeq(SetOrder(cells_around_hive(player), player.rev),
              LAMBDA cell : neighbors_only_my_pieces(player, cell))

\* a faulty variant of valid_moves: the movements are chained at every turn
valid_moves_always_chain(player) ==
    LET vp         == valid_placements(player)
        kinds      == my_placable_pieces(player)
        place_iter == Concat([i \in 1..Len(vp) |->
                          [j \in 1..Len(kinds) |-> Move(kinds[j], None, vp[i])]])
        mv         == my_movable_pieces(player)
        move_iter  == Concat([i \in 1..Len(mv) |-> mapping(player, mv[i][1], mv[i][2])])
    IN  IF my_piece_remaining(player, "Q") > 0 /\ player.myMove = 3
        THEN [i \in 1..Len(vp) |-> Move("Q", None, vp[i])]
        ELSE place_iter \o move_iter

valid_moves(player) ==
    LET vp         == valid_placements(player)
        kinds      == my_placable_pieces(player)
        place_iter == Concat([i \in 1..Len(vp) |->
                          [j \in 1..Len(kinds) |-> Move(kinds[j], None, vp[i])]])
        mv         == my_movable_pieces(player)
        move_iter  == Concat([i \in 1..Len(mv) |-> mapping(player, mv[i][1], mv[i][2])])
    IN  IF my_piece_remaining(player, "Q") > 0 /\ player.myMove = 3
        THEN [i \in 1..Len(vp) |-> Move("Q", None, vp[i])]
        ELSE IF player.myMove >= 4 THEN place_iter \o move_iter ELSE place_iter

\* valid_moves raises when its movable-piece filter meets a piece without
\* any neighbour (next() on an empty iterator inside the generator)
valid_moves_raises(player) ==
    /\ ~(my_piece_remaining(player, "Q") > 0 /\ player.myMove = 3)
    /\ player.myMove >= 4
    /\ \E i \in 1..Len(my_pieces_on_board(player)) :
           moving_breaks_hive(player, my_pieces_on_board(player)[i][2]).raised

\* ---------------------------------------------------------------- evaluator
\* enum State
RUNNING == 0
WIN == 1
LOSS == 2
DRAW == 3

is_end(state) == state > 0

inverse(state) ==
    IF state = WIN THEN LOSS ELSE IF state = LOSS THEN WIN ELSE state

\* enum Criteria
BASE == 0
GENERIC_BLOCKING == 1
BEETLE_BLOCKING == 2
BEETLE_BLOCKING_QUEEN_BONUS == 3
QUEEN_NEIGHBOR == 4
QUEEN_SURROUNDED == 5
QUEEN_BLOCKED == 6

EVAL_TABLE_MY == <<1, 600, 200, 1000, -400, -1000000, -400, 200>>

EVAL_TABLE_RIVAL == <<-1, -500, -200, -1200, 400, 1000000, 400, -100>>

\* the loop of is_blocking_rival_piece over the neighbours left
RECURSIVE is_blocking_loop(_, _, _, _)
is_blocking_loop(player, ns, target_player, seen) ==
    IF ns = <<>> THEN seen
    ELSE IF isupper(top_piece_in(player, Head(ns))) = target_player THEN FALSE
    ELSE IF seen THEN FALSE
    ELSE is_blocking_loop(player, Tail(ns), target_player, TRUE)

is_blocking_rival_piece(player, cell, target_player) ==
    is_blocking_loop(player, neighbors(player, cell), target_player, FALSE)

\* The result is [score, state, raised]; raised when moving_breaks_hive raises.
evaluate_cell(player, cell, target_player) ==
    LET top_piece      == top_piece_in(player, cell)
        piece_is_upper == isupper(top_piece)
        my             == piece_is_upper = target_player
        piece          == from_str(top_piece)
        table          == IF my THEN EVAL_TABLE_MY ELSE EVAL_TABLE_RIVAL
        score0         == table[BASE + 1]
        score1         == IF piece # "Q"
                             /\ is_blocking_rival_piece(player, cell, piece_is_upper)
                          THEN table[GENERIC_BLOCKING + 1] ELSE score0
        pieces         == player.board[cell]
    IN
    IF piece = "B"
    THEN IF Len(pieces) >= 2
         THEN LET second_piece == pieces[Len(pieces) - 1] IN
              IF isupper(second_piece) # piece_is_upper
              THEN [score |-> score1 + table[BEETLE_BLOCKING + 1]
                               + (IF str_upper(second_piece) = "Q"
                                  THEN table[BEETLE_BLOCKING_QUEEN_BONUS + 1] ELSE 0),
                    state |-> RUNNING, raised |-> FALSE]
              ELSE [score |-> score1 - table[GENERIC_BLOCKING + 1],
                    state |-> RUNNING, raised |-> FALSE]
         ELSE [score |-> score1, state |-> RUNNING, raised |-> FALSE]
    ELSE IF piece = "Q"
    THEN LET c == Len(neighbors(player, cell)) IN
         IF c = 6
         THEN [score |-> table[QUEEN_SURROUNDED + 1],
               state |-> IF my THEN LOSS ELSE WIN, raised |-> FALSE]
         ELSE LET mb == moving_breaks_hive(player, cell) IN
              [score |-> table[QUEEN_NEIGHBOR + 1] * (c - 1)
                           + (IF mb.result THEN table[QUEEN_BLOCKED + 1] ELSE 0),
               state |-> RUNNING, raised |-> mb.raised]
    ELSE [score |-> score1, state |-> RUNNING, raised |-> FALSE]

\* a faulty variant of the loop of evaluate_position: a terminal cell does
\* not end it
RECURSIVE evaluate_loop_no_stop(_, _, _, _)
evaluate_loop_no_stop(player, cells, target_player, score) ==
    IF cells = <<>> THEN [score |-> score, state |-> RUNNING, raised |-> FALSE]
    ELSE evaluate_loop_no_stop(player, Tail(cells), target_player,
             score + evaluate_cell(player, Head(cells), target_player).score)

\* the loop of evaluate_position over the cells of the hive left
RECURSIVE evaluate_loop(_, _, _, _)
evaluate_loop(player, cells, target_player, score) ==
    IF cells = <<>> THEN [score |-> score, state |-> RUNNING, raised |-> FALSE]
    ELSE LET r == evaluate_cell(player, Head(cells), target_player) IN
         IF r.raised THEN r
         ELSE IF r.state # 0 THEN r
         ELSE evaluate_loop(player, Tail(cells), target_player, score + r.score)

evaluate_position(player, target_player) ==
    evaluate_loop(player, SetOrder(player.hive, player.rev), target_player, 0)

\* ================================================================ state
VARIABLES
    board,      \* Player._board
    hive,       \* Player.hive
    upper,      \* Board.myColorIsUpper
    myMove,     \* Board.myMove
    myPieces,   \* Board.myPieces
    rev,        \* the iteration order of sets of cells
    ctx,        \* the open PlayMove / LiftPiece contexts, innermost last
    ret,        \* the last operation: [op, arg, value, before]
    mpc,        \* where Player.move / Player.minimax stands
    nodes,      \* minimax: the list `nodes`, each node with its subtree
    best,       \* minimax: the move of the node `best`
    depth,      \* minimax: the round counter `depth`
    ni,         \* minimax: the index of the root node being deepened
    stack,      \* the calls of Node.next_depth in progress, innermost last
    expired,    \* whether time.perf_counter() has passed `end`
    result,     \* what Player.move returned, and by which exit
    entry,      \* the board and hive on which the search started
    lastRound   \* the list `nodes` as the last completed round left it

boardVars == <<board, hive>>
inputVars == <<upper, myMove, myPieces, rev>>
probeVars == <<ctx, ret>>
searchVars == <<mpc, nodes, best, depth, ni, stack, expired, result, entry, lastRound>>
vars == <<board, hive, upper, myMove, myPieces, rev, ctx, ret,
          mpc, nodes, best, depth, ni, stack, expired, result, entry, lastRound>>

\* the Player object of the current state
Self == [board |-> board, hive |-> hive, upper |-> upper, myMove |-> myMove,
         myPieces |-> myPieces, rev |-> rev]

Snapshot == [board |-> board, hive |-> hive]

\* ---------------------------------------------------------------- inputs
\* how many turns beyond its placements the side to move has played
MaxExtraTurns == 1

\* the pieces of one kind each side starts with
Inventory == 1

\* A position is a set of <<cell, stack>>.
MkBoard(S) ==
    [c \in Cells |-> IF \E e \in S : e[1] = c
                     THEN (CHOOSE e \in S : e[1] = c)[2] ELSE <<>>]

\* two pieces: the position after both first placements
SeedPair == {<< <<1, 1>>, <<"S">> >>, << <<2, 1>>, <<"s">> >>}

\* a chain whose middle pieces hold the hive together
SeedLine == {<< <<0, 1>>, <<"A">> >>, << <<1, 1>>, <<"Q">> >>,
             << <<2, 1>>, <<"q">> >>, << <<2, 2>>, <<"a">> >>}

\* three pieces a side, the upper Queen still in reserve
SeedThree == {<< <<1, 1>>, <<"S">> >>, << <<0, 1>>, <<"A">> >>,
              << <<0, 2>>, <<"G">> >>, << <<2, 1>>, <<"s">> >>,
              << <<2, 0>>, <<"q">> >>, << <<3, 0>>, <<"a">> >>}

\* a ring of six around the empty cell (1, 1)
SeedRing == {<< <<2, 1>>, <<"Q">> >>, << <<1, 2>>, <<"a">> >>,
             << <<0, 2>>, <<"S">> >>, << <<0, 1>>, <<"q">> >>,
             << <<1, 0>>, <<"A">> >>, << <<2, 0>>, <<"s">> >>}

\* the lower Queen at (1, 1) with five neighbours; the Grasshopper at
\* (0, 3) can jump over (1, 2) into the sixth, (2, 1)
SeedWin == {<< <<1, 1>>, <<"q">> >>, << <<1, 2>>, <<"A">> >>,
            << <<0, 2>>, <<"s">> >>, << <<0, 1>>, <<"b">> >>,
            << <<1, 0>>, <<"Q">> >>, << <<2, 0>>, <<"a">> >>,
            << <<0, 3>>, <<"G">> >>}

\* both Queens one piece short of being surrounded; the cell (2, 1) is a
\* neighbour of both, and the Grasshopper at (2, 3) can jump into it
SeedDouble == {<< <<1, 1>>, <<"Q">> >>, << <<1, 2>>, <<"q">> >>,
               << <<0, 2>>, <<"S">> >>, << <<0, 1>>, <<"s">> >>,
               << <<1, 0>>, <<"B">> >>, << <<2, 0>>, <<"b">> >>,
               << <<2, 2>>, <<"A">> >>, << <<1, 3>>, <<"a">> >>,
               << <<0, 3>>, <<"g">> >>, << <<2, 3>>, <<"G">> >>}

\* a Beetle on top of the rival Queen
SeedStack == {<< <<1, 1>>, <<"q", "B">> >>, << <<0, 1>>, <<"Q">> >>,
              << <<0, 2>>, <<"A">> >>, << <<2, 1>>, <<"a">> >>,
              << <<2, 0>>, <<"s">> >>}

\* the Spider at (0, 1) at the mouth of a pocket of four empty cells
SeedPocket == {<< <<1, 0>>, <<"a">> >>, << <<2, 0>>, <<"b">> >>,
               << <<2, 1>>, <<"g">> >>, << <<2, 2>>, <<"q">> >>,
               << <<1, 3>>, <<"s">> >>, << <<0, 3>>, <<"Q">> >>,
               << <<-1, 3>>, <<"B">> >>, << <<-1, 2>>, <<"G">> >>,
               << <<0, 1>>, <<"S">> >>}

\* the empty board: the side to move opens the game
SeedEmpty == {}

\* one piece, in the corner (0, 0) of the board: the side to move answers
\* the rival's opening
SeedCorner == {<< <<0, 0>>, <<"s">> >>}

\* one piece, on the inner cell (1, 1)
SeedInner == {<< <<1, 1>>, <<"s">> >>}

\* the upper Queen is due; placed at (0, 0) it leaves no cell that touches
\* upper pieces only
SeedStuck == {<< <<1, 0>>, <<"A">> >>, << <<1, 1>>, <<"q">> >>,
              << <<0, 2>>, <<"b">> >>, << <<-1, 3>>, <<"B">> >>}

\* the upper side, a turn past its fourth placement, has one legal move,
\* the Queen's step to (1, 3) being refused for want of a flanking cell
SeedNarrow == {<< <<2, 1>>, <<"S">> >>, << <<2, 2>>, <<"B">> >>,
               << <<3, 1>>, <<"G">> >>, << <<2, 3>>, <<"Q">> >>,
               << <<2, 0>>, <<"g">> >>, << <<1, 3>>, <<"s">> >>,
               << <<0, 0>>, <<"q">> >>, << <<1, 0>>, <<"a">> >>}

Seeds == {SeedPair, SeedLine, SeedThree, SeedRing, SeedWin, SeedDouble,
          SeedStack, SeedPocket, SeedEmpty, SeedCorner, SeedInner, SeedStuck,
          SeedNarrow}

\* the number of pieces `letter` in position S, covered ones included
OnBoard(S, letter) ==
    LET n[T \in SUBSET S] ==
            IF T = {} THEN 0
            ELSE LET e == CHOOSE x \in T : TRUE IN
                 Cardinality({i \in 1..Len(e[2]) : e[2][i] = letter}) + n[T \ {e}]
    IN  n[S]

OwnLetters(up) == IF up THEN UpperLetters ELSE LowerLetters

\* the reserve of side `up` in position S
Reserve(S, up) == [l \in OwnLetters(up) |-> Inventory - OnBoard(S, l)]

\* the pieces side `up` has placed in position S
Placed(S, up) ==
    LET n[T \in SUBSET OwnLetters(up)] ==
            IF T = {} THEN 0
            ELSE LET l == CHOOSE x \in T : TRUE IN OnBoard(S, l) + n[T \ {l}]
    IN  n[OwnLetters(up)]

NoRet == [op |-> "none", arg |-> None, value |-> None, before |-> None]

InitBoard ==
    \E S \in Seeds :
        /\ board = MkBoard(S)
        /\ hive = {e[1] : e \in S}
        /\ upper \in BOOLEAN
        /\ myPieces = Reserve(S, upper)
        /\ myMove \in Placed(S, upper)..
                     (IF Placed(S, upper) = 0 THEN 0
                      ELSE Placed(S, upper) + MaxExtraTurns)
        /\ rev \in BOOLEAN

NoMove == [piece |-> "", start |-> None, end |-> None]

Init ==
    /\ InitBoard
    /\ ctx = <<>>
    /\ ret = NoRet
    /\ mpc = "idle"
    /\ nodes = <<>>
    /\ best = NoMove
    /\ depth = 0
    /\ ni = 0
    /\ stack = <<>>
    /\ expired = FALSE
    /\ result = [move |-> NoMove, exit |-> "none"]
    /\ entry = None
    /\ lastRound = <<>>

\* ================================================================ board operations
Top(c) == c[Len(c)]

InPlay == IF ctx = <<>> THEN TRUE ELSE Top(ctx).kind = "play"

\* The operations below are applied to a position once, as the search does:
\* when it has just been set up (the initial one, or the one a move led to).
Fresh == InPlay /\ ret.op \in {"none", "play_move"}

\* PlayMove.__enter__ with a move of the move generator, on an initial
\* position (the search nests these contexts, see NextDepthEnter)
PlayMoveEnter ==
    /\ Fresh
    /\ ctx = <<>>
    /\ \E i \in 1..Len(valid_moves(Self)) :
        LET move == valid_moves(Self)[i]
            p    == play_move(Self, move)
        IN  /\ play_move_assert(Self, move)
            /\ board' = p.board
            /\ hive' = p.hive
            /\ ctx' = Append(ctx, [kind |-> "play", arg |-> move, piece |-> "",
                                   before |-> Snapshot])
            /\ ret' = [op |-> "play_move", arg |-> move, value |-> None,
                       before |-> Snapshot]
    /\ UNCHANGED <<inputVars, searchVars>>

\* PlayMove.__exit__
PlayMoveExit ==
    /\ ctx # <<>>
    /\ Top(ctx).kind = "play"
    /\ LET move == Top(ctx).arg
           p    == reverse_move(Self, move)
       IN  /\ reverse_move_assert(Self, move)
           /\ board' = p.board
           /\ hive' = p.hive
           /\ ret' = [op |-> "reverse_move", arg |-> move, value |-> None,
                      before |-> Top(ctx).before]
    /\ ctx' = SubSeq(ctx, 1, Len(ctx) - 1)
    /\ UNCHANGED <<inputVars, searchVars>>

\* the cells the code lifts a piece from: the own top pieces (the
\* generators and my_movable_pieces) and the Queens (evaluate_cell)
Liftable(cell) ==
    /\ cell \in hive
    /\ IF is_my_cell(Self, cell) THEN TRUE
       ELSE from_str(top_piece_in(Self, cell)) = "Q"

\* LiftPiece.__enter__
LiftEnter ==
    /\ Fresh
    /\ \E cell \in Cells :
        /\ Liftable(cell)
        /\ LET r == LiftPiece_enter(Self, cell) IN
            /\ board' = r.player.board
            /\ hive' = r.player.hive
            /\ ctx' = Append(ctx, [kind |-> "lift", arg |-> cell, piece |-> r.piece,
                                   before |-> Snapshot])
            /\ ret' = [op |-> "lift", arg |-> cell, value |-> r.piece,
                       before |-> Snapshot]
    /\ UNCHANGED <<inputVars, searchVars>>

\* LiftPiece.__exit__
LiftExit ==
    /\ ctx # <<>>
    /\ Top(ctx).kind = "lift"
    /\ LET p == LiftPiece_exit(Self, Top(ctx).arg, Top(ctx).piece) IN
        /\ board' = p.board
        /\ hive' = p.hive
    /\ ret' = [op |-> "unlift", arg |-> Top(ctx).arg, value |-> Top(ctx).piece,
               before |-> Top(ctx).before]
    /\ ctx' = SubSeq(ctx, 1, Len(ctx) - 1)
    /\ UNCHANGED <<inputVars, searchVars>>

\* a call of moving_breaks_hive, as my_movable_pieces and evaluate_cell make it
MovingBreaksHive ==
    /\ Fresh
    /\ \E cell \in Cells :
        /\ Liftable(cell)
        /\ LET r == moving_breaks_hive(Self, cell) IN
            /\ board' = r.player.board
            /\ hive' = r.player.hive
            /\ ret' = [op |-> "moving_breaks_hive", arg |-> cell,
                       value |-> [result |-> r.result, raised |-> r.raised],
                       before |-> Snapshot]
    /\ UNCHANGED <<inputVars, ctx, searchVars>>

\* a call of valid_moves
ValidMoves ==
    /\ Fresh
    /\ ret' = [op |-> "valid_moves", arg |-> None, value |-> valid_moves(Self),
               before |-> Snapshot]
    /\ UNCHANGED <<boardVars, inputVars, ctx, searchVars>>

\* a call of evaluate_position on the position a move leads to
EvaluatePosition ==
    /\ ctx # <<>>
    /\ Fresh
    /\ \E target_player \in BOOLEAN :
        ret' = [op |-> "evaluate_position", arg |-> target_player,
                value |-> evaluate_position(Self, target_player),
                before |-> Snapshot]
    /\ UNCHANGED <<boardVars, inputVars, ctx, searchVars>>

\* a call of spiders_moves on a movable Spider of the side to move
SpidersMoves ==
    /\ Fresh
    /\ \E i \in 1..Len(my_movable_pieces(Self)) :
        LET pc == my_movable_pieces(Self)[i] IN
        /\ pc[1] = "S"
        /\ ret' = [op |-> "spiders_moves", arg |-> pc[2],
                   value |-> spiders_moves(Self, pc[2]), before |-> Snapshot]
    /\ UNCHANGED <<boardVars, inputVars, ctx, searchVars>>

\* a call of grasshoppers_moves on a movable Grasshopper of the side to move
GrasshoppersMoves ==
    /\ Fresh
    /\ \E i \in 1..Len(my_movable_pieces(Self)) :
        LET pc == my_movable_pieces(Self)[i] IN
        /\ pc[1] = "G"
        /\ ret' = [op |-> "grasshoppers_moves", arg |-> pc[2],
                   value |-> grasshoppers_moves(Self, pc[2]), before |-> Snapshot]
    /\ UNCHANGED <<boardVars, inputVars, ctx, searchVars>>

NextBoard ==
    \/ PlayMoveEnter
    \/ PlayMoveExit
    \/ LiftEnter
    \/ LiftExit
    \/ MovingBreaksHive
    \/ ValidMoves
    \/ EvaluatePosition
    \/ SpidersMoves
    \/ GrasshoppersMoves

SpecBoard == Init /\ [][NextBoard]_vars

\* ================================================================ search tree
\* Node.__init__. The attribute `end`, which next_depth sets at depth 1 and
\* nothing reads, is -1 while the node has none.
Node(move) ==
    [move |-> move, score |-> 0, children |-> <<>>, depth |-> 0,
     state |-> RUNNING, end |-> -1]

\* the node reached from the list of root nodes by a path of indices
RECURSIVE NodeAt(_, _)
NodeAt(list, path) ==
    IF Len(path) = 1 THEN list[path[1]]
    ELSE NodeAt(list[path[1]].children, Tail(path))

\* the list of root nodes with the node at the path replaced
RECURSIVE SetNode(_, _, _)
SetNode(list, path, node) ==
    IF Len(path) = 1 THEN [list EXCEPT ![path[1]] = node]
    ELSE [list EXCEPT ![path[1]] =
             [@ EXCEPT !.children = SetNode(@, Tail(path), node)]]

\* a faulty variant of sort_insert: a node goes before the nodes of its score
sort_insert_before_ties(sorted, x) ==
    LET k == Cardinality({i \in 1..Len(sorted) : sorted[i].score > x.score})
    IN  SubSeq(sorted, 1, k) \o <<x>> \o SubSeq(sorted, k + 1, Len(sorted))

\* list.sort(reverse=True) under Node.__gt__: descending by score, and stable
sort_insert(sorted, x) ==
    LET k == Cardinality({i \in 1..Len(sorted) : sorted[i].score >= x.score})
    IN  SubSeq(sorted, 1, k) \o <<x>> \o SubSeq(sorted, k + 1, Len(sorted))

RECURSIVE sort_fold(_, _)
sort_fold(list, acc) ==
    IF list = <<>> THEN acc ELSE sort_fold(Tail(list), sort_insert(acc, Head(list)))

sort_reverse(list) == sort_fold(list, <<>>)

\* list[:limit] and islice(list, limit)
Take(list, limit) == SubSeq(list, 1, IF Len(list) < limit THEN Len(list) ELSE limit)

\* a faulty variant of max(nodes): the last node of the list
max_node_last(list) == list[Len(list)]

\* max(nodes) under Node.__gt__: the first node no later node exceeds
max_node(list) ==
    list[CHOOSE i \in 1..Len(list) :
            /\ \A j \in 1..Len(list) : list[j].score <= list[i].score
            /\ \A j \in 1..(i - 1) : list[j].score < list[i].score]

\* a faulty variant of evaluate_children: the children are truncated and
\* the first one is taken without the sort
evaluate_children_unsorted(node) ==
    IF node.children = <<>>
    THEN [score |-> 0, state |-> DRAW, children |-> <<>>]
    ELSE LET limit  == IF node.depth <= 4 THEN 10
                       ELSE IF node.depth <= 6 THEN 5 ELSE 2
             kept   == Take(node.children, limit)
             first  == kept[1]
         IN  [score |-> -first.score, state |-> inverse(first.state),
              children |-> kept]

\* Node.evaluate_children: the score and state returned and the children kept
evaluate_children(node) ==
    IF node.children = <<>>
    THEN [score |-> 0, state |-> DRAW, children |-> <<>>]
    ELSE LET sorted == sort_reverse(node.children)
             limit  == IF node.depth <= 4 THEN 10
                       ELSE IF node.depth <= 6 THEN 5 ELSE 2
             kept   == Take(sorted, limit)
             first  == kept[1]
         IN  [score |-> -first.score, state |-> inverse(first.state),
              children |-> kept]

\* Move.to_brute: the letter in the case of the side, the cells as they are
to_brute(move, up) ==
    [piece |-> piece_str(move, up), start |-> move.start, end |-> move.end]

\* class PlayMove
PlayMove_enter(player, move) == play_move(player, move)

\* a faulty variant of PlayMove.__exit__: the move is not reversed
PlayMove_exit_skipped(player, move) == player

PlayMove_exit(player, move) == reverse_move(player, move)

\* ================================================================ search
\* how many rounds of minimax begin before the deadline has passed
MaxRounds == 3

\* the rounds of minimax explored when there are at most DeepWidth root nodes
MaxDeepRounds == 7

DeepWidth == 1

RoundCap == IF Len(nodes) <= DeepWidth THEN MaxDeepRounds ELSE MaxRounds

\* a call of next_depth on the node at `path`, about to execute; `kids` keeps
\* the moves of the children the node has when the call is made
Frame(path, target_player) ==
    [path |-> path, target_player |-> target_player, pc |-> "enter", i |-> 1,
     ret |-> TRUE, before |-> Snapshot,
     kids |-> [k \in 1..Len(NodeAt(nodes, path).children) |->
                  NodeAt(nodes, path).children[k].move]]

SetTop(stk, f) == [stk EXCEPT ![Len(stk)] = f]

Pop(stk) == SubSeq(stk, 1, Len(stk) - 1)

\* what `time.perf_counter() > end` may answer: once true, true for good
Clock == IF expired THEN {TRUE} ELSE BOOLEAN

\* Player.move up to the call of minimax, and minimax up to its loop
MoveBegin ==
    /\ mpc = "idle"
    /\ ret.op = "none"
    /\ LET h      == {c \in Cells : board[c] # <<>>}
           player == [Self EXCEPT !.hive = h]
           moves  == valid_moves(player)
           ns     == [i \in 1..Len(moves) |-> Node(moves[i])]
       IN
       /\ hive' = h
       /\ entry' = [board |-> board, hive |-> h]
       /\ IF myMove = 0
          THEN /\ nodes' = <<>>
               /\ best' = best
               /\ IF h = {}
                  THEN /\ result' = [move |-> to_brute(Move("S", None, <<3, 6>>), upper),
                                     exit |-> "opening"]
                       /\ mpc' = "done"
                  ELSE IF cells_around_hive(player) = {}
                  THEN /\ result' = result
                       /\ mpc' = "failed"
                  ELSE /\ \E placement \in cells_around_hive(player) :
                            result' = [move |-> to_brute(Move("S", None, placement), upper),
                                       exit |-> "opening"]
                       /\ mpc' = "done"
          ELSE IF valid_moves_raises(player)
          THEN /\ nodes' = <<>>
               /\ best' = best
               /\ result' = result
               /\ mpc' = "failed"
          ELSE IF ns = <<>>
          THEN /\ nodes' = ns
               /\ best' = best
               /\ result' = [move |-> NoMove, exit |-> "nomove"]
               /\ mpc' = "done"
          ELSE /\ nodes' = ns
               /\ best' = ns[1].move
               /\ result' = result
               /\ mpc' = "round"
    /\ UNCHANGED <<board, inputVars, probeVars, depth, ni, stack, expired, lastRound>>

\* the head of minimax's loop: the deadline check, then the first root call
RoundBegin ==
    /\ mpc = "round"
    /\ \E late \in Clock :
        /\ late \/ depth < RoundCap
        /\ expired' = late
        /\ IF late
           THEN /\ result' = [move |-> to_brute(best, upper), exit |-> "deadline"]
                /\ mpc' = "done"
                /\ UNCHANGED <<ni, stack>>
           ELSE /\ ni' = 1
                /\ stack' = <<Frame(<<1>>, upper)>>
                /\ mpc' = "call"
                /\ result' = result
    /\ UNCHANGED <<boardVars, inputVars, probeVars, nodes, best, depth, entry, lastRound>>

\* next_depth from its first line to the entry of the PlayMove context
NextDepthEnter ==
    /\ mpc = "call"
    /\ Top(stack).pc = "enter"
    /\ LET f    == Top(stack)
           node == NodeAt(nodes, f.path)
       IN
       IF is_end(node.state)
       THEN /\ stack' = SetTop(stack, [f EXCEPT !.pc = "return", !.ret = TRUE])
            /\ UNCHANGED <<boardVars, nodes, expired, mpc>>
       ELSE \E late \in Clock :
            /\ expired' = late
            /\ IF late
               THEN /\ stack' = SetTop(stack, [f EXCEPT !.pc = "return", !.ret = FALSE])
                    /\ UNCHANGED <<boardVars, nodes, mpc>>
               ELSE LET p == PlayMove_enter(Self, node.move) IN
                    /\ nodes' = SetNode(nodes, f.path, [node EXCEPT !.depth = @ + 1])
                    /\ board' = p.board
                    /\ hive' = p.hive
                    /\ stack' = SetTop(stack, [f EXCEPT !.pc = "body"])
                    /\ mpc' = IF play_move_assert(Self, node.move) THEN mpc ELSE "failed"
    /\ UNCHANGED <<inputVars, probeVars, best, depth, ni, result, entry, lastRound>>

\* depth 1: the static evaluation, and the exit of the context
NextDepthLeaf ==
    /\ mpc = "call"
    /\ Top(stack).pc = "body"
    /\ LET f    == Top(stack)
           node == NodeAt(nodes, f.path)
           r    == evaluate_position(Self, f.target_player)
           p    == PlayMove_exit(Self, node.move)
       IN
       /\ node.depth = 1
       /\ nodes' = SetNode(nodes, f.path, [node EXCEPT !.score = r.score, !.end = r.state])
       /\ board' = p.board
       /\ hive' = p.hive
       /\ stack' = SetTop(stack, [f EXCEPT !.pc = "return", !.ret = TRUE])
       /\ mpc' = IF r.raised THEN "failed"
                 ELSE IF reverse_move_assert(Self, node.move) THEN mpc ELSE "failed"
    /\ UNCHANGED <<inputVars, probeVars, best, depth, ni, expired, result, entry, lastRound>>

\* depth 2: the children are created and evaluated, and the context exits
NextDepthExpand ==
    /\ mpc = "call"
    /\ Top(stack).pc = "body"
    /\ LET f    == Top(stack)
           node == NodeAt(nodes, f.path)
           moves == valid_moves(Self)
           kids == [i \in 1..Len(moves) |-> Node(moves[i])]
           ec   == evaluate_children([node EXCEPT !.children = kids])
           p    == PlayMove_exit(Self, node.move)
       IN
       /\ node.depth = 2
       /\ nodes' = SetNode(nodes, f.path,
                     [node EXCEPT !.children = ec.children, !.score = ec.score,
                                  !.state = ec.state])
       /\ board' = p.board
       /\ hive' = p.hive
       /\ stack' = SetTop(stack, [f EXCEPT !.pc = "return", !.ret = TRUE])
       /\ mpc' = IF valid_moves_raises(Self) THEN "failed"
                 ELSE IF reverse_move_assert(Self, node.move) THEN mpc ELSE "failed"
    /\ UNCHANGED <<inputVars, probeVars, best, depth, ni, expired, result, entry, lastRound>>

\* depth > 2: the call of next_depth on the next child
NextDepthRecurse ==
    /\ mpc = "call"
    /\ Top(stack).pc = "body"
    /\ LET f    == Top(stack)
           node == NodeAt(nodes, f.path)
       IN
       /\ node.depth > 2
       /\ f.i <= Len(node.children)
       /\ stack' = Append(stack, Frame(f.path \o <<f.i>>, ~f.target_player))
    /\ UNCHANGED <<boardVars, inputVars, probeVars, mpc, nodes, best, depth, ni,
                   expired, result, entry, lastRound>>

\* depth > 2, every child deepened: evaluate_children, and the context exits
NextDepthFinish ==
    /\ mpc = "call"
    /\ Top(stack).pc = "body"
    /\ LET f    == Top(stack)
           node == NodeAt(nodes, f.path)
           ec   == evaluate_children(node)
           p    == PlayMove_exit(Self, node.move)
       IN
       /\ node.depth > 2
       /\ f.i > Len(node.children)
       /\ nodes' = SetNode(nodes, f.path,
                     [node EXCEPT !.children = ec.children, !.score = ec.score,
                                  !.state = ec.state])
       /\ board' = p.board
       /\ hive' = p.hive
       /\ stack' = SetTop(stack, [f EXCEPT !.pc = "return", !.ret = TRUE])
       /\ mpc' = IF reverse_move_assert(Self, node.move) THEN mpc ELSE "failed"
    /\ UNCHANGED <<inputVars, probeVars, best, depth, ni, expired, result, entry, lastRound>>

\* a child's next_depth returns into its parent's loop: on True the loop
\* goes on, on False the parent returns False through its context's exit
ChildReturn ==
    /\ mpc = "call"
    /\ Len(stack) >= 2
    /\ Top(stack).pc = "return"
    /\ LET f      == Top(stack)
           parent == stack[Len(stack) - 1]
           pnode  == NodeAt(nodes, parent.path)
           p      == PlayMove_exit(Self, pnode.move)
       IN
       IF f.ret
       THEN /\ stack' = SetTop(Pop(stack), [parent EXCEPT !.i = @ + 1])
            /\ UNCHANGED <<boardVars, mpc>>
       ELSE /\ stack' = SetTop(Pop(stack), [parent EXCEPT !.pc = "return", !.ret = FALSE])
            /\ board' = p.board
            /\ hive' = p.hive
            /\ mpc' = IF reverse_move_assert(Self, pnode.move) THEN mpc ELSE "failed"
    /\ UNCHANGED <<inputVars, probeVars, nodes, best, depth, ni, expired, result,
                   entry, lastRound>>

\* a root node's next_depth returns into minimax's loop over the nodes
RootReturn ==
    /\ mpc = "call"
    /\ Len(stack) = 1
    /\ Top(stack).pc = "return"
    /\ IF ~Top(stack).ret
       THEN /\ result' = [move |-> to_brute(best, upper), exit |-> "deadline"]
            /\ mpc' = "done"
            /\ stack' = <<>>
            /\ ni' = ni
       ELSE IF ni < Len(nodes)
       THEN /\ ni' = ni + 1
            /\ stack' = <<Frame(<<ni + 1>>, upper)>>
            /\ UNCHANGED <<result, mpc>>
       ELSE /\ mpc' = "roundend"
            /\ stack' = <<>>
            /\ UNCHANGED <<result, ni>>
    /\ UNCHANGED <<boardVars, inputVars, probeVars, nodes, best, depth, expired,
                   entry, lastRound>>

\* the end of a round of minimax: the Win shortcut, the sort and the beam
RoundEnd ==
    /\ mpc = "roundend"
    /\ LET limit     == IF depth <= 2 THEN Len(nodes)
                        ELSE IF depth <= 5 THEN 5 ELSE 2
           win_moves == SelectSeq(nodes, LAMBDA n : n.state = WIN)
           sorted    == sort_reverse(nodes)
           kept      == Take(SelectSeq(sorted, LAMBDA n : n.state # LOSS), limit)
       IN
       IF win_moves # <<>>
       THEN /\ result' = [move |-> to_brute(win_moves[1].move, upper), exit |-> "win"]
            /\ mpc' = "done"
            /\ UNCHANGED <<nodes, best, depth, lastRound>>
       ELSE IF kept = <<>>
       THEN /\ nodes' = kept
            /\ result' = [move |-> to_brute(best, upper), exit |-> "empty"]
            /\ mpc' = "done"
            /\ UNCHANGED <<best, depth, lastRound>>
       ELSE /\ nodes' = kept
            /\ best' = max_node(kept).move
            /\ depth' = depth + 1
            /\ lastRound' = kept
            /\ mpc' = "round"
            /\ result' = result
    /\ UNCHANGED <<boardVars, inputVars, probeVars, ni, stack, expired, entry>>

Next ==
    \/ MoveBegin
    \/ RoundBegin
    \/ NextDepthEnter
    \/ NextDepthLeaf
    \/ NextDepthExpand
    \/ NextDepthRecurse
    \/ NextDepthFinish
    \/ ChildReturn
    \/ RootReturn
    \/ RoundEnd

Spec == Init /\ [][Next]_vars

\* ================================================================ properties
\* the cells with a piece on them
Occupied(b) == {c \in Cells : b[c] # <<>>}

Adjacent(a, b) ==
    \E i \in 1..6 : b = <<a[1] + DIRECTIONS[i][1], a[2] + DIRECTIONS[i][2]>>

\* the cells of S reachable from R through adjacent cells of S
RECURSIVE Reach(_, _)
Reach(S, R) ==
    LET R2 == R \cup {c \in S : \E r \in R : Adjacent(r, c)}
    IN  IF R2 = R THEN R ELSE Reach(S, R2)

\* S is one connected component
ConnectedSet(S) == IF S = {} THEN TRUE ELSE Reach(S, {CHOOSE c \in S : TRUE}) = S

\* C1 - round-trip law: whenever reverse_move(m) has undone a move m of the
\* move generator that play_move(m) applied, every cell's stack and the hive
\* set are what they were before play_move(m).
RoundTrip ==
    ret.op = "reverse_move" =>
        /\ board = ret.before.board
        /\ hive = ret.before.hive

\* a Beetle has stepped off a stack onto an occupied cell, and was taken back
RoundTripWitness ==
    /\ ret.op = "reverse_move"
    /\ ret.arg.start # None
    /\ Len(ret.before.board[ret.arg.start]) > 1
    /\ ret.before.board[ret.arg.end] # <<>>
    /\ board = ret.before.board

\* C2 - scoped mutation: when a call of next_depth is about to return, True
\* or False, the board and the hive set are those of its entry; and whenever
\* minimax is between rounds or move has returned, they are those on which
\* the search started.
ScopedMutation ==
    /\ \A k \in 1..Len(stack) :
          stack[k].pc = "return" =>
              /\ board = stack[k].before.board
              /\ hive = stack[k].before.hive
    /\ mpc \in {"round", "roundend", "done"} =>
          /\ board = entry.board
          /\ hive = entry.hive

\* a root call returns False because the deadline passed under a descendant
ScopedMutationWitness ==
    /\ mpc = "call"
    /\ Len(stack) = 1
    /\ Top(stack).pc = "return"
    /\ ~Top(stack).ret
    /\ NodeAt(nodes, Top(stack).path).depth > 2
    /\ board = entry.board

\* the moves of the nodes of the list no node of the list outscores
HighestScoring(list) ==
    {list[i].move : i \in {i \in 1..Len(list) :
                              \A j \in 1..Len(list) : list[j].score <= list[i].score}}

\* the player on the position the search started from
EntryPlayer == [Self EXCEPT !.board = entry.board, !.hive = entry.hive]

\* C3 - timeout handling: move never fails, and when it returns because the
\* deadline passed it returns a highest-scoring node of the last completed
\* round, by the scores that round left, or the first legal move when no
\* round has completed.
TimeoutHandling ==
    /\ mpc # "failed"
    /\ (mpc = "done" /\ result.exit = "deadline") =>
          IF lastRound = <<>>
          THEN result.move = to_brute(valid_moves(EntryPlayer)[1], upper)
          ELSE \E m \in HighestScoring(lastRound) : result.move = to_brute(m, upper)

\* the deadline passed in a round that had already rewritten scores, and by
\* those scores another move would be the best
TimeoutHandlingWitness ==
    /\ mpc = "done"
    /\ result.exit = "deadline"
    /\ lastRound # <<>>
    /\ \A m \in HighestScoring(nodes) : result.move # to_brute(m, upper)

\* C4 - hive-set invariant: a cell is in the hive set exactly when its stack
\* is not empty, also while a piece is lifted and while a move is applied.
HiveInvariant == hive = Occupied(board)

\* a piece is lifted off a stack, whose cell stays in the hive
HiveInvariantWitness ==
    /\ ctx # <<>>
    /\ Top(ctx).kind = "lift"
    /\ board[Top(ctx).arg] # <<>>
    /\ Top(ctx).arg \in hive

\* the top piece of the cell is a Queen and all six neighbours are occupied
Surrounded(b, cell) ==
    /\ b[cell] # <<>>
    /\ str_upper(b[cell][Len(b[cell])]) = "Q"
    /\ \A i \in 1..6 :
          LET n == <<cell[1] + DIRECTIONS[i][1], cell[2] + DIRECTIONS[i][2]>>
          IN  IF n \in Cells THEN b[n] # <<>> ELSE FALSE

SurroundedQueens(b) == {c \in Cells : Surrounded(b, c)}

\* the top piece of the cell belongs to side `up`
OwnedBy(b, cell, up) == isupper(b[cell][Len(b[cell])]) = up

\* the move leads to a position where the rival Queen is surrounded and the
\* own Queen is not
WinsAt(player, move) ==
    LET b == play_move(player, move).board IN
    /\ \E c \in SurroundedQueens(b) : ~OwnedBy(b, c, player.upper)
    /\ \A c \in SurroundedQueens(b) : ~OwnedBy(b, c, player.upper)

\* C5 - winning move is taken: when a round has been completed, every root
\* node whose move surrounds the rival Queen (and not the own one) carries
\* the outcome Win; and the search never goes on past a completed round when
\* such a root move exists: it has returned that move.
WinningMoveTaken ==
    /\ mpc = "roundend" =>
          \A i \in 1..Len(nodes) :
              WinsAt(EntryPlayer, nodes[i].move) => nodes[i].state = WIN
    /\ lastRound # <<>> =>
          \A i \in 1..Len(valid_moves(EntryPlayer)) :
              ~WinsAt(EntryPlayer, valid_moves(EntryPlayer)[i])

\* the cells a piece of the player may be placed on: empty, next to the
\* hive, and with no rival piece next to them
LegalPlacementCells(player) ==
    {c \in Cells :
        /\ player.board[c] = <<>>
        /\ \E n \in Occupied(player.board) : Adjacent(c, n)
        /\ \A n \in Occupied(player.board) :
              Adjacent(c, n) => OwnedBy(player.board, n, player.upper)}

\* the kinds the player has in reserve
ReserveKinds(player) ==
    {k \in UpperLetters :
        player.myPieces[IF player.upper THEN k ELSE str_lower(k)] > 0}

PlacementMoves(player, kinds) ==
    {Move(k, None, c) : k \in kinds, c \in LegalPlacementCells(player)}

\* lifting the top piece of the cell leaves the occupied cells disconnected
Disconnects(b, cell) ==
    ~ConnectedSet(Occupied([b EXCEPT ![cell] = SubSeq(@, 1, Len(@) - 1)]))

\* the movements of the own top pieces whose lifting keeps the hive connected
MovementMoves(player) ==
    UNION {Range(mapping(player, str_upper(player.board[c][Len(player.board[c])]), c)) :
             c \in {c \in Occupied(player.board) :
                       /\ OwnedBy(player.board, c, player.upper)
                       /\ ~Disconnects(player.board, c)}}

QueenTurn(player) ==
    player.myMove = 3 /\ "Q" \in ReserveKinds(player)

\* C6 (as amended) - legal-move set: at turn index 3 with the Queen in
\* reserve valid_moves yields exactly the Queen placements on the legal
\* placement cells; otherwise exactly the placements of every kind in reserve
\* on every legal placement cell, together with - from turn index 4 on, and
\* only then - the movements of every own top piece whose removal does not
\* break the hive.
LegalMovesFromTurnFour ==
    ret.op = "valid_moves" =>
        Range(ret.value) =
            IF QueenTurn(Self) THEN PlacementMoves(Self, {"Q"})
            ELSE PlacementMoves(Self, ReserveKinds(Self))
                 \cup (IF myMove >= 4 THEN MovementMoves(Self) ELSE {})

\* C6 (as stated) - legal-move set: the movements are part of the set at
\* every turn index >= 1 but the Queen turn.
LegalMovesEveryTurn ==
    (ret.op = "valid_moves" /\ myMove >= 1) =>
        Range(ret.value) =
            IF QueenTurn(Self) THEN PlacementMoves(Self, {"Q"})
            ELSE PlacementMoves(Self, ReserveKinds(Self)) \cup MovementMoves(Self)

\* before turn index 4, pieces that could move are on the board and
\* valid_moves has yielded placements only
LegalMovesWitness ==
    /\ ret.op = "valid_moves"
    /\ myMove < 4
    /\ ~QueenTurn(Self)
    /\ MovementMoves(Self) # {}
    /\ ret.value # <<>>
    /\ \A i \in 1..Len(ret.value) : ret.value[i].start = None

\* C7 - one-hive rule: the occupied cells form one connected component in
\* every state of the search, whatever moves of valid_moves are applied.
OneHive == ConnectedSet(Occupied(board))

\* two relocations are applied one on top of the other
OneHiveWitness ==
    /\ mpc = "call"
    /\ Len(stack) >= 2
    /\ Top(stack).pc = "body"
    /\ NodeAt(nodes, stack[1].path).move.start # None
    /\ NodeAt(nodes, Top(stack).path).move.start # None
    /\ board # entry.board

\* the cell has an occupied neighbour
HasNeighbour(b, cell) == \E n \in Occupied(b) : Adjacent(cell, n)

\* C8 - soundness of the connectivity shortcut: on a connected hive, for a
\* cell with an occupied neighbour, moving_breaks_hive returns true whenever
\* lifting the cell's top piece disconnects the rest, and leaves board and
\* hive as they were; and no such piece is among my_movable_pieces.
ShortcutSound ==
    /\ (/\ ret.op = "moving_breaks_hive"
        /\ ConnectedSet(Occupied(ret.before.board))
        /\ HasNeighbour(ret.before.board, ret.arg)) =>
          /\ ~ret.value.raised
          /\ Disconnects(ret.before.board, ret.arg) => ret.value.result
          /\ board = ret.before.board
          /\ hive = ret.before.hive
    /\ ConnectedSet(Occupied(board)) =>
          \A i \in 1..Len(my_movable_pieces(Self)) :
              ~Disconnects(board, my_movable_pieces(Self)[i][2])

\* the piece that holds the hive together is reported as breaking it
ShortcutSoundWitness ==
    /\ ret.op = "moving_breaks_hive"
    /\ ConnectedSet(Occupied(ret.before.board))
    /\ Disconnects(ret.before.board, ret.arg)
    /\ ret.value.result
    /\ board = ret.before.board

\* what a surrounded Queen at the cell makes of the position, seen by the
\* side target_player
QueenVerdict(b, cell, target_player) ==
    IF OwnedBy(b, cell, target_player)
    THEN [score |-> EVAL_TABLE_MY[QUEEN_SURROUNDED + 1], state |-> LOSS]
    ELSE [score |-> EVAL_TABLE_RIVAL[QUEEN_SURROUNDED + 1], state |-> WIN]

\* the surrounded Queen the iteration over the hive meets first
FirstSurrounded ==
    LET order == SetOrder(hive, rev)
        k     == CHOOSE i \in 1..Len(order) :
                    /\ order[i] \in SurroundedQueens(board)
                    /\ \A j \in 1..(i - 1) : order[j] \notin SurroundedQueens(board)
    IN  order[k]

\* C9 (as amended) - surrounded Queen is terminal: when no Queen on top of
\* its cell has all six neighbours occupied, evaluate_position returns
\* Running; otherwise it returns the outcome and the queen-surrounded table
\* entry of the surrounded Queen the iteration over the hive meets first
\* (Loss if it is the perspective side's, Win if the rival's), and nothing of
\* the other cells.
SurroundedQueenFirstMet ==
    ret.op = "evaluate_position" =>
        /\ ~ret.value.raised
        /\ IF SurroundedQueens(board) = {}
           THEN ret.value.state = RUNNING
           ELSE [score |-> ret.value.score, state |-> ret.value.state]
                    = QueenVerdict(board, FirstSurrounded, ret.arg)

\* C9 (as stated) - surrounded Queen is terminal: for whichever Queen is
\* surrounded, the outcome is Loss if it is the perspective side's and Win if
\* the rival's, with that table entry as the score.
SurroundedQueenEvery ==
    ret.op = "evaluate_position" =>
        IF SurroundedQueens(board) = {}
        THEN ret.value.state = RUNNING
        ELSE \A c \in SurroundedQueens(board) :
                [score |-> ret.value.score, state |-> ret.value.state]
                    = QueenVerdict(board, c, ret.arg)

\* both Queens are surrounded in the position evaluated
SurroundedQueenWitness ==
    /\ ret.op = "evaluate_position"
    /\ Cardinality(SurroundedQueens(board)) = 2
    /\ ret.value.state \in {WIN, LOSS}

\* the cells where a path of k slide steps from the cell ends that visits
\* no cell of `seen` and no cell twice
RECURSIVE PathEnds(_, _, _, _)
PathEnds(player, cell, seen, k) ==
    IF k = 0 THEN {cell}
    ELSE UNION {PathEnds(player, n, seen \cup {n}, k - 1) :
                  n \in {n \in Range(valid_steps(player, cell, FALSE)) : n \notin seen}}

\* C10 - Spider destinations: with the Spider lifted, spiders_moves yields
\* exactly the cells where a path of exactly 3 slide steps from the origin
\* ends that visits no cell twice.
SpiderDestinations ==
    ret.op = "spiders_moves" =>
        {ret.value[i].end : i \in 1..Len(ret.value)}
            = PathEnds(LiftPiece_enter(Self, ret.arg).player, ret.arg, {ret.arg}, 3)

\* the cell k steps from the cell in direction d
StepFrom(cell, d, k) == <<cell[1] + k * d[1], cell[2] + k * d[2]>>

\* the cell is on the board and has a piece on it
OccupiedAt(b, cell) == IF cell \in Cells THEN b[cell] # <<>> ELSE FALSE

\* how many occupied cells follow the origin in a row in direction d
RunLength(b, origin, d) ==
    CHOOSE k \in 0..(2 * BoardSize + 1) :
        /\ \A j \in 1..k : OccupiedAt(b, StepFrom(origin, d, j))
        /\ ~OccupiedAt(b, StepFrom(origin, d, k + 1))

\* where a jump from the origin in direction d lands: behind a run of at
\* least one piece, if the board has not ended there
JumpTarget(b, origin, d) ==
    LET k == RunLength(b, origin, d) IN
    IF k >= 1 /\ StepFrom(origin, d, k + 1) \in Cells
    THEN {StepFrom(origin, d, k + 1)} ELSE {}

\* the board with the top piece of the cell taken off
LiftedBoard(b, cell) == [b EXCEPT ![cell] = SubSeq(@, 1, Len(@) - 1)]

\* C11 - Grasshopper destinations: grasshoppers_moves yields, once each, the
\* cells that in one of the 6 directions are the first empty cell on the
\* board behind a run of at least one occupied cell; nothing in a direction
\* whose first cell is empty, nothing where the run ends at the board edge.
GrasshopperDestinations ==
    ret.op = "grasshoppers_moves" =>
        LET b    == LiftedBoard(board, ret.arg)
            ends == {ret.value[i].end : i \in 1..Len(ret.value)}
        IN  /\ ends = UNION {JumpTarget(b, ret.arg, DIRECTIONS[i]) : i \in 1..6}
            /\ Len(ret.value) = Cardinality(ends)
            /\ \A i \in 1..Len(ret.value) :
                  /\ ret.value[i].piece = "G"
                  /\ ret.value[i].start = ret.arg
                  /\ board[ret.value[i].end] = <<>>

\* a call that yields a jump, with one direction whose first cell is empty
\* and on the board, and one whose run of pieces ends at the board edge
GrasshopperWitness ==
    /\ ret.op = "grasshoppers_moves"
    /\ ret.value # <<>>
    /\ LET b == LiftedBoard(board, ret.arg) IN
       /\ \E i \in 1..6 :
             /\ StepFrom(ret.arg, DIRECTIONS[i], 1) \in Cells
             /\ RunLength(b, ret.arg, DIRECTIONS[i]) = 0
       /\ \E i \in 1..6 :
             /\ RunLength(b, ret.arg, DIRECTIONS[i]) >= 1
             /\ JumpTarget(b, ret.arg, DIRECTIONS[i]) = {}

\* ---------------------------------------------------------------- C12
\* the hive is one piece, and it is the rival's
SingleRival ==
    /\ Cardinality(Occupied(board)) = 1
    /\ \A c \in Occupied(board) : Len(board[c]) = 1 /\ ~OwnedBy(board, c, upper)

TheOne == CHOOSE c \in Cells : board[c] # <<>>

\* the 6 neighbouring cells of a cell, on the board or not
Neighbours6(cell) == {StepFrom(cell, DIRECTIONS[i], 1) : i \in 1..6}

\* the cells Player.move can answer with from the current state
CanPlaceAt(n) == ENABLED (MoveBegin /\ mpc' = "done" /\ result'.move.end = n)

OpeningAnswer(ends) ==
    (mpc = "done" /\ result.exit = "opening" /\ SingleRival) =>
        /\ result.move.piece = (IF upper THEN "S" ELSE "s")
        /\ result.move.start = None
        /\ result.move.end \in ends

\* C12 (as the code has it): at its first turn (myMove = 0), facing a hive
\* of one rival piece, Player.move places on any empty neighbouring cell of
\* that piece that lies on the board, and on no other cell: the 6
\* neighbours of an inner piece, (1, 0) and (0, 1) only for the corner
\* piece at (0, 0). The exemption is Player.move's: valid_placements keeps
\* the "touch only own pieces" rule and yields no cell in that position.
FirstPlacementOnBoard ==
    /\ (mpc = "idle" /\ ret.op = "none" /\ myMove = 0 /\ SingleRival) =>
          /\ \A n \in Cells \cup Neighbours6(TheOne) :
                CanPlaceAt(n) <=> n \in Neighbours6(TheOne) \cap Cells
          /\ valid_placements(Self) = <<>>
    /\ OpeningAnswer(Neighbours6(TheOne) \cap Cells)

\* C12 (as stated): the placements facing a single rival piece are exactly
\* the 6 neighbouring cells of that piece, for a piece at (0, 0) as well.
FirstPlacementSixCells ==
    (mpc = "idle" /\ ret.op = "none" /\ myMove = 0 /\ SingleRival) =>
        \A n \in Cells \cup Neighbours6(TheOne) :
            CanPlaceAt(n) <=> n \in Neighbours6(TheOne)

\* Player.move has answered the rival's opening at the corner (0, 0)
FirstPlacementWitness ==
    /\ mpc = "done"
    /\ result.exit = "opening"
    /\ SingleRival
    /\ board[<<0, 0>>] # <<>>
    /\ result.move.end = <<1, 0>>

\* ---------------------------------------------------------------- C13
\* a call of next_depth has just returned True
Completed ==
    /\ mpc = "call"
    /\ stack # <<>>
    /\ Top(stack).pc = "return"
    /\ Top(stack).ret

\* the node the returning call was made on
Called == NodeAt(nodes, Top(stack).path)

\* the outcome seen from the other side
Inversion(state) ==
    CASE state = WIN  -> LOSS
      [] state = LOSS -> WIN
      [] OTHER        -> state

\* the first of the children no other child outscores
BestChild(node) ==
    node.children[CHOOSE i \in 1..Len(node.children) :
        /\ \A j \in 1..Len(node.children) :
              node.children[j].score <= node.children[i].score
        /\ \A j \in 1..(i - 1) :
              node.children[j].score < node.children[i].score]

Negamax(node) ==
    node.depth >= 2 =>
        IF node.children = <<>>
        THEN node.score = 0 /\ node.state = DRAW
        ELSE /\ node.score = 0 - BestChild(node).score
             /\ node.state = Inversion(BestChild(node).state)

\* C13 - negamax relation: when a call of next_depth has returned True on a
\* node of depth >= 2, the node without children has score 0 and outcome
\* Draw, and any other node has the negated score of its highest-scoring
\* surviving child and the inversion of that child's outcome; so have all
\* root nodes at the end of a round.
NegamaxRelation ==
    /\ Completed => Negamax(Called)
    /\ mpc = "roundend" => \A i \in 1..Len(nodes) : Negamax(nodes[i])

\* a call has returned on a node of depth 3 whose children were scored
\* differently, the best of them not 0
NegamaxWitness ==
    /\ Completed
    /\ Called.depth = 3
    /\ \E i, j \in 1..Len(Called.children) :
          Called.children[i].score # Called.children[j].score
    /\ Called.score # 0

\* a call has returned on a node that was found without children: the
\* Queen placed at (0, 0) in SeedStuck
NegamaxDrawReached ==
    /\ Completed
    /\ Called.depth = 2
    /\ Called.children = <<>>
    /\ Called.state = DRAW

\* ---------------------------------------------------------------- C14
\* the call on top of the stack has played its node's move
Playing ==
    /\ mpc = "call"
    /\ stack # <<>>
    /\ Top(stack).pc = "body"

\* the side whose turn a ply is when the sides alternate: the agent's at
\* the root nodes, the rival's at their children, the agent's below those
SideAtPly(ply) == IF ply % 2 = 1 THEN upper ELSE ~upper

\* the side of the piece the move of the call on top of the stack has put
\* on the board
SideMoved ==
    LET cell == NodeAt(nodes, Top(stack).path).move.end
    IN  isupper(board[cell][Len(board[cell])])

\* C14 - sides alternate each ply: the move a call of next_depth plays is
\* a move of the agent's side at the root nodes, of the rival side at their
\* children, and so on in turn; and the side that moves at a ply is the
\* side from whose perspective the ply is scored.
SidesAlternate ==
    Playing =>
        /\ SideMoved = SideAtPly(Len(Top(stack).path))
        /\ SideMoved = Top(stack).target_player

\* ---------------------------------------------------------------- C15
\* the most children a node of depth d keeps
BeamLimit(d) == IF d <= 4 THEN 10 ELSE IF d <= 6 THEN 5 ELSE 2

\* the moves the call on top of the stack found its node's children to be
MovesBefore == Top(stack).kids

\* the moves generated in the position the node's move leads to
MovesGenerated == valid_moves(PlayMove_enter(Self, Called.move))

NoRepeat(seq) == \A i, j \in 1..Len(seq) : seq[i] = seq[j] => i = j

IndexIn(seq, m) == CHOOSE k \in 1..Len(seq) : seq[k] = m

Descending(list) ==
    \A i, j \in 1..Len(list) : i < j => list[i].score >= list[j].score

\* every element of the list comes from the sequence of moves
ComesFrom(list, seq) ==
    /\ NoRepeat([i \in 1..Len(list) |-> list[i].move])
    /\ \A i \in 1..Len(list) : \E k \in 1..Len(seq) : seq[k] = list[i].move

\* nodes of the same score stand in the order their moves have in seq
TiesKeepOrder(list, seq) ==
    \A i, j \in 1..Len(list) :
        (i < j /\ list[i].score = list[j].score) =>
            IndexIn(seq, list[i].move) < IndexIn(seq, list[j].move)

Pruned(list, seq, d) ==
    /\ NoRepeat(seq)
    /\ ComesFrom(list, seq)
    /\ Descending(list)
    /\ TiesKeepOrder(list, seq)
    /\ Len(list) <= BeamLimit(d)
    /\ Len(list) = Len(seq) \/ Len(list) = BeamLimit(d)

\* C15 (as the code has it): when a call of next_depth has returned True on
\* a node of depth d >= 2, the children are in descending score order with
\* ties in their previous order, and there are at most 10 of them if
\* d <= 4, at most 5 if d <= 6 and at most 2 otherwise. For d >= 3 the
\* children come from the children the node had before the call; for
\* d = 2, where the node had none before the call, they are the first of
\* the moves generated by the call, in the order of generation.
BeamPruning ==
    (Completed /\ Called.depth >= 2) =>
        IF Called.depth = 2
        THEN /\ MovesBefore = <<>>
             /\ Pruned(Called.children, MovesGenerated, 2)
             /\ \A i \in 1..Len(Called.children) :
                   Called.children[i].move = MovesGenerated[i]
        ELSE Pruned(Called.children, MovesBefore, Called.depth)

\* C15 (as stated): for every d >= 2 the children after the call are a
\* sub-list of the children before the call.
BeamSubList ==
    (Completed /\ Called.depth >= 2) =>
        /\ ComesFrom(Called.children, MovesBefore)
        /\ Descending(Called.children)
        /\ TiesKeepOrder(Called.children, MovesBefore)
        /\ Len(Called.children) <= BeamLimit(Called.depth)

\* a call has cut the children of a node of depth 5 down to 5, some of
\* them of the same score and some not
BeamPruningWitness ==
    /\ Completed
    /\ Called.depth = 5
    /\ Len(MovesBefore) > 5
    /\ Len(Called.children) = 5
    /\ \E i, j \in 1..5 :
          i # j /\ Called.children[i].score = Called.children[j].score
    /\ \E i, j \in 1..5 :
          Called.children[i].score # Called.children[j].score

\* ---------------------------------------------------------------- C16
\* the node has been given its static score by a call of next_depth
Evaluated(node) == node.depth >= 1

\* C16 - no candidate is pruned unevaluated: when a call of next_depth has
\* sorted and truncated the children of a node, every child has been
\* evaluated (its depth is at least 1), and the score the node takes when it
\* is first expanded (depth 2) is the negated score of an evaluated child.
NoUnevaluatedPruning ==
    (Completed /\ Called.depth >= 2) =>
        /\ \A i \in 1..Len(Called.children) : Evaluated(Called.children[i])
        /\ (Called.depth = 2 /\ Called.children # <<>>) =>
              \E i \in 1..Len(Called.children) :
                  /\ Evaluated(Called.children[i])
                  /\ Called.score = 0 - Called.children[i].score

=============================================================================
